---- MODULE Spec2Model ----
(***************************************************************************)
(* A model of app.py, the command-line todo application: four tables       *)
(* (tasks, notes, events, documents) in an SQLite store, the calendar      *)
(* file calendar.ics regenerated from the events table, and the content    *)
(* tree under storage/ that add-doc copies files into.                     *)
(*                                                                         *)
(* One process run (main) is one step.  Texts are sequences of one-        *)
(* character strings, so that the conversions the program performs         *)
(* (datetime.fromisoformat, isoformat, str(date), date.fromisoformat) and  *)
(* SQLite's byte-wise ORDER BY on TEXT are computed, not assumed.          *)
(***************************************************************************)
EXTENDS Integers, Sequences, FiniteSets, Bags, TLC

\* Number of add-* commands explored in one behaviour.
MaxWrites == 2

(***************************************************************************)
(* Texts                                                                   *)
(***************************************************************************)

\* The characters the inputs use, in ascending byte (ASCII) order.
Ascii == <<" ", "+", "-", ".", "0", "1", "2", "3", "4", "5", "6", "7", "8", "9", ":",
           "T", "b", "g", "o", "s", "u">>

Ord(c) == CHOOSE i \in 1..Len(Ascii) : Ascii[i] = c

DigitChars == <<"0", "1", "2", "3", "4", "5", "6", "7", "8", "9">>

IsDigit(c) == \E i \in 1..10 : DigitChars[i] = c

DigitVal(c) == (CHOOSE i \in 1..10 : DigitChars[i] = c) - 1

\* The n characters of s from position i (1-based); << >> when out of range.
Slice(s, i, n) == IF i + n - 1 <= Len(s) THEN SubSeq(s, i, i + n - 1) ELSE << >>

RECURSIVE DigitsValue(_)
DigitsValue(s) ==
    IF s = << >> THEN 0
    ELSE DigitsValue(SubSeq(s, 1, Len(s) - 1)) * 10 + DigitVal(s[Len(s)])

\* parse_digits: the value of exactly n decimal digits at position i, or -1.
ParseDigits(s, i, n) ==
    LET t == Slice(s, i, n)
    IN  IF Len(t) = n /\ \A k \in 1..n : IsDigit(t[k]) THEN DigitsValue(t) ELSE -1

\* "%0<w>d" % n
RECURSIVE Pad(_, _)
Pad(n, w) == IF w = 0 THEN << >> ELSE Pad(n \div 10, w - 1) \o <<DigitChars[(n % 10) + 1]>>

\* SQLite's BINARY collation on TEXT: memcmp on the common prefix, then length.
RECURSIVE TextLess(_, _)
TextLess(a, b) ==
    IF a = << >> THEN b # << >>
    ELSE IF b = << >> THEN FALSE
    ELSE IF a[1] # b[1] THEN Ord(a[1]) < Ord(b[1])
    ELSE TextLess(Tail(a), Tail(b))

TextLeq(a, b) == a = b \/ TextLess(a, b)

(***************************************************************************)
(* Dates and date-times (the datetime module)                              *)
(***************************************************************************)

IsLeap(y) == (y % 4 = 0 /\ y % 100 # 0) \/ y % 400 = 0

DaysInMonth(y, m) ==
    IF m = 2 THEN (IF IsLeap(y) THEN 29 ELSE 28)
    ELSE IF m \in {4, 6, 9, 11} THEN 30 ELSE 31

\* The range checks of the date constructor.
ValidDate(y, m, d) ==
    /\ y \in 1..9999
    /\ m \in 1..12
    /\ d >= 1 /\ d <= DaysInMonth(y, m)

\* The range checks of the time constructor.
ValidTime(h, mi, s) == h \in 0..23 /\ mi \in 0..59 /\ s \in 0..59

NoDateTime ==
    [ok |-> FALSE, y |-> 0, m |-> 0, d |-> 0, h |-> 0, mi |-> 0, s |-> 0, us |-> 0,
     tz |-> FALSE, off |-> 0]

\* HH[:MM[:SS[.fff[fff]]]]: <<hour, minute, second, microsecond>>, or << >>.
ParseClock(t) ==
    LET h  == ParseDigits(t, 1, 2)
        mi == ParseDigits(t, 4, 2)
        s  == ParseDigits(t, 7, 2)
        n  == Len(t)
    IN  IF n = 2 /\ h >= 0 THEN <<h, 0, 0, 0>>
        ELSE IF n = 5 /\ h >= 0 /\ t[3] = ":" /\ mi >= 0 THEN <<h, mi, 0, 0>>
        ELSE IF n >= 8 /\ h >= 0 /\ t[3] = ":" /\ mi >= 0 /\ t[6] = ":" /\ s >= 0
        THEN IF n = 8 THEN <<h, mi, s, 0>>
             ELSE IF n = 12 /\ t[9] = "." /\ ParseDigits(t, 10, 3) >= 0
                  THEN <<h, mi, s, ParseDigits(t, 10, 3) * 1000>>
             ELSE IF n = 15 /\ t[9] = "." /\ ParseDigits(t, 10, 6) >= 0
                  THEN <<h, mi, s, ParseDigits(t, 10, 6)>>
             ELSE << >>
        ELSE << >>

\* Position of the first "+" or "-" of t, or 0: where the UTC offset starts.
SignPos(t) ==
    IF \E i \in 1..Len(t) : t[i] \in {"+", "-"}
    THEN CHOOSE i \in 1..Len(t) :
             /\ t[i] \in {"+", "-"}
             /\ \A j \in 1..(i - 1) : t[j] \notin {"+", "-"}
    ELSE 0

\* The offset part, +HH:MM or -HH:MM, in minutes east of UTC; << >> if malformed.
\* (Offsets with a seconds part are outside the inputs modelled.)
ParseOffset(z) ==
    LET h  == ParseDigits(z, 2, 2)
        mi == ParseDigits(z, 5, 2)
    IN  IF Len(z) = 6 /\ h >= 0 /\ z[4] = ":" /\ mi >= 0 /\ h * 60 + mi < 1440 /\ mi < 60
        THEN <<IF z[1] = "-" THEN 0 - (h * 60 + mi) ELSE h * 60 + mi>>
        ELSE << >>

\* datetime.datetime.fromisoformat: YYYY-MM-DD[*HH[:MM[:SS[.fff[fff]]]][+HH:MM]],
\* the grammar every Python 3.7+ accepts; ok = FALSE stands for ValueError.
fromisoformat(text) ==
    LET y  == ParseDigits(text, 1, 4)
        m  == ParseDigits(text, 6, 2)
        d  == ParseDigits(text, 9, 2)
        dateOk == /\ Len(text) >= 10 /\ y >= 0 /\ m >= 0 /\ d >= 0
                  /\ text[5] = "-" /\ text[8] = "-"
                  /\ ValidDate(y, m, d)
        t  == IF Len(text) > 11 THEN SubSeq(text, 12, Len(text)) ELSE << >>
        p  == SignPos(t)
        ct == IF p = 0 THEN t ELSE SubSeq(t, 1, p - 1)
        zt == IF p = 0 THEN << >> ELSE SubSeq(t, p, Len(t))
        c  == ParseClock(ct)
        z  == ParseOffset(zt)
    IN  IF ~dateOk THEN NoDateTime
        ELSE IF Len(text) = 10
        THEN [ok |-> TRUE, y |-> y, m |-> m, d |-> d, h |-> 0, mi |-> 0, s |-> 0,
              us |-> 0, tz |-> FALSE, off |-> 0]
        ELSE IF c = << >> \/ ~ValidTime(c[1], c[2], c[3]) \/ (p # 0 /\ z = << >>)
        THEN NoDateTime
        ELSE [ok |-> TRUE, y |-> y, m |-> m, d |-> d, h |-> c[1], mi |-> c[2],
              s |-> c[3], us |-> c[4], tz |-> p # 0, off |-> IF p # 0 THEN z[1] ELSE 0]

\* datetime.date(): the calendar date of a date-time, as <<year, month, day>>.
DateOf(dt) == <<dt.y, dt.m, dt.d>>

\* str(date): YYYY-MM-DD
DateStr(date) == Pad(date[1], 4) \o <<"-">> \o Pad(date[2], 2) \o <<"-">> \o Pad(date[3], 2)

\* datetime.date.fromisoformat: exactly YYYY-MM-DD; << >> stands for ValueError.
date_fromisoformat(text) ==
    LET y == ParseDigits(text, 1, 4)
        m == ParseDigits(text, 6, 2)
        d == ParseDigits(text, 9, 2)
    IN  IF /\ Len(text) = 10 /\ y >= 0 /\ m >= 0 /\ d >= 0
           /\ text[5] = "-" /\ text[8] = "-" /\ ValidDate(y, m, d)
        THEN <<y, m, d>>
        ELSE << >>

\* date > date
DateGreater(a, b) ==
    \/ a[1] > b[1]
    \/ a[1] = b[1] /\ a[2] > b[2]
    \/ a[1] = b[1] /\ a[2] = b[2] /\ a[3] > b[3]

\* datetime.isoformat(): YYYY-MM-DDTHH:MM:SS[.ffffff][+HH:MM]
isoformat(dt) ==
    LET a == IF dt.off < 0 THEN 0 - dt.off ELSE dt.off
    IN  Pad(dt.y, 4) \o <<"-">> \o Pad(dt.m, 2) \o <<"-">> \o Pad(dt.d, 2) \o <<"T">>
        \o Pad(dt.h, 2) \o <<":">> \o Pad(dt.mi, 2) \o <<":">> \o Pad(dt.s, 2)
        \o (IF dt.us # 0 THEN <<".">> \o Pad(dt.us, 6) ELSE << >>)
        \o (IF dt.tz
            THEN <<IF dt.off < 0 THEN "-" ELSE "+">> \o Pad(a \div 60, 2) \o <<":">>
                 \o Pad(a % 60, 2)
            ELSE << >>)

\* Days from 1970-01-01 to the civil date y-m-d (proleptic Gregorian).
DaysFromCivil(y, m, d) ==
    LET yy  == IF m <= 2 THEN y - 1 ELSE y
        era == yy \div 400
        yoe == yy - era * 400
        mp  == IF m > 2 THEN m - 3 ELSE m + 9
        doy == (153 * mp + 2) \div 5 + d - 1
        doe == yoe * 365 + yoe \div 4 - yoe \div 100 + doy
    IN  era * 146097 + doe - 719468

\* The instant a date-time denotes: <<minutes since the epoch in UTC, second,
\* microsecond>>.  A date-time without offset is read as UTC, as the calendar
\* library does when it takes Event.begin.
Instant(dt) ==
    <<DaysFromCivil(dt.y, dt.m, dt.d) * 1440 + dt.h * 60 + dt.mi - dt.off, dt.s, dt.us>>

InstantLeq(a, b) ==
    \/ a[1] < b[1]
    \/ a[1] = b[1] /\ a[2] < b[2]
    \/ a[1] = b[1] /\ a[2] = b[2] /\ a[3] <= b[3]

(***************************************************************************)
(* Inputs and environment                                                  *)
(***************************************************************************)

\* The nine sub-commands build_parser registers.
Commands ==
    {"add-task", "list-tasks", "add-note", "list-notes", "add-event", "list-events",
     "add-storage", "add-doc", "list-docs"}

\* Command names the parser does not know.
UnknownCommands == {"bogus"}

Descriptions == {"Pay rent"}

\* expires arguments: two valid dates, a valid date with a time of day, and
\* 29 February of a common year.
ExpiresInputs ==
    {<<"2", "0", "2", "4", "-", "0", "2", "-", "2", "8", " ", "2", "3", ":", "5", "9">>,
     <<"2", "0", "2", "4", "-", "0", "2", "-", "2", "9">>,
     <<"2", "0", "2", "4", "-", "0", "3", "-", "0", "1">>,
     <<"2", "0", "2", "3", "-", "0", "2", "-", "2", "9">>}

\* What date.today() may return when list-tasks runs.
Days == {<<2024, 2, 29>>, <<2024, 3, 1>>}

Contents == {"call Ana"}

EventNames == {"Standup", "Retro"}

\* time arguments: the documented YYYY-MM-DD HH:MM form, two forms with a UTC
\* offset (one with a fraction of a second), and a text that is no date-time.
TimeInputs ==
    {<<"2", "0", "2", "4", "-", "0", "1", "-", "0", "2", " ", "0", "9", ":", "0", "0">>,
     <<"2", "0", "2", "4", "-", "0", "1", "-", "0", "2", "T", "1", "0", ":", "0", "0", ":", "0", "0", "+", "0", "5", ":", "0", "0">>,
     <<"2", "0", "2", "4", "-", "0", "1", "-", "0", "2", "T", "0", "9", ":", "3", "0", ":", "0", "0", ".", "5", "0", "0", "0", "0", "0", "+", "0", "0", ":", "0", "0">>,
     <<"b", "o", "g", "u", "s">>}

Labels == {"Invoice"}

StorageNames == {"finance"}

\* --storage: absent (None) or a sub-area name.
None == "None"

\* Files outside the content tree, by path (a sequence of components).
SourceFiles ==
    (<<"tmp", "inv.pdf">> :> "invoice of May") @@ (<<"home", "inv.pdf">> :> "invoice of June")

\* file_path arguments: the existing files and one path that does not exist.
FilePaths == DOMAIN SourceFiles \cup {<<"no", "such", "file">>}

\* How the store answers the handler's INSERT ... commit.
DbOutcomes == {"ok", "fail"}

\* How the file system answers mkdir.
MkdirOutcomes == {"ok", "fail"}

\* How the file system answers the copy of an existing source: done, or an
\* I/O error after the destination was opened for writing and truncated.
CopyOutcomes == {"ok", "fail"}

\* How the file system answers the opening of calendar.ics for writing.
IcsOutcomes == {"ok", "fail"}

\* What the environment of one run decides: the answers of the store and of the
\* file system, and the date of the clock.
Env(db, mk, cp, ics, now) == [db |-> db, mk |-> mk, cp |-> cp, ics |-> ics, now |-> now]

(***************************************************************************)
(* State                                                                   *)
(***************************************************************************)

VARIABLES
    schema,     \* todo.db holds the four tables (init_db has run)
    tasks,      \* rows of tasks, in id order: [description, expires]
    notes,      \* rows of notes: [content]
    events,     \* rows of events: [name, time]
    documents,  \* rows of documents: [label, path, storage]
    calendar,   \* calendar.ics: [exists, entries], entries a bag of [name, begin]
    dirs,       \* directories of the content tree, as paths
    files,      \* files of the content tree: path -> content
    today,      \* what date.today() returned to the last list-tasks
    argv,       \* arguments of the last run
    handler,    \* the operation main invoked in the last run, or "none"
    err,        \* the exception that ended the last run, or "none"
    exit,       \* exit status of the last run
    out,        \* lines the last run printed
    regen,      \* calls of generate_calendar in the last run
    nwrites     \* add-* commands run so far

vars ==
    <<schema, tasks, notes, events, documents, calendar, dirs, files, today, argv,
      handler, err, exit, out, regen, nwrites>>

DB_PATH == <<"todo.db">>

STORAGE_DIR == <<"storage">>

\* Exit status of the interpreter: 0, 2 from the argument parser's error, 1 from
\* an exception nobody catches.
ExitStatus(e) == IF e = "none" THEN 0 ELSE IF e = "usage" THEN 2 ELSE 1

\* How a run ends: the operation invoked, the exception, the lines printed and
\* the calls of generate_calendar.
Result(h, e, o, r) ==
    /\ handler' = h
    /\ err' = e
    /\ exit' = ExitStatus(e)
    /\ out' = o
    /\ regen' = r

Init ==
    /\ schema = FALSE
    /\ tasks = << >>
    /\ notes = << >>
    /\ events = << >>
    /\ documents = << >>
    /\ calendar = [exists |-> FALSE, entries |-> EmptyBag]
    /\ dirs = {}
    /\ files = << >>
    /\ today = <<2024, 2, 29>>
    /\ argv = << >>
    /\ handler = "none"
    /\ err = "none"
    /\ exit = 0
    /\ out = << >>
    /\ regen = 0
    /\ nwrites = 0

\* init_db: CREATE TABLE IF NOT EXISTS for the four tables; rows are kept.
init_db == schema' = TRUE

\* The orders in which SELECT ... ORDER BY may return rows with the given keys
\* (keys[i] the key of row i): every permutation of the row ids that is
\* ascending in the key, ties in any order.
SortedOrders(keys) ==
    {p \in [1..Len(keys) -> 1..Len(keys)] :
        /\ \A i, j \in 1..Len(keys) : i # j => p[i] # p[j]
        /\ \A i, j \in 1..Len(keys) : i < j => TextLeq(keys[p[i]], keys[p[j]])}

(***************************************************************************)
(* Tasks and notes                                                         *)
(***************************************************************************)

\* add_task: parse, then INSERT INTO tasks.
add_task(description, expires, env) ==
    LET dt == fromisoformat(expires)
    IN  /\ IF ~dt.ok
           THEN /\ Result("add_task", "InvalidInput", << >>, 0)
                /\ UNCHANGED tasks
           ELSE IF env.db = "fail"
           THEN /\ Result("add_task", "StorageError", << >>, 0)
                /\ UNCHANGED tasks
           ELSE /\ tasks' = Append(tasks, [description |-> description,
                                           expires |-> DateStr(DateOf(dt))])
                /\ Result("add_task", "none", << >>, 0)
        /\ UNCHANGED <<notes, events, documents, calendar, dirs, files, today>>

\* TaskStatus with the comparison today >= expires: a task due today is EXPIRED.
TaskStatus_inclusive(now, exp) ==
    IF ~DateGreater(date_fromisoformat(exp), now) THEN "EXPIRED" ELSE ""

\* The status list_tasks prints for a row, with date.today() = now.
TaskStatus(now, exp) ==
    IF DateGreater(now, date_fromisoformat(exp)) THEN "EXPIRED" ELSE ""

\* ORDER BY expires
TaskKeys == [i \in 1..Len(tasks) |-> tasks[i].expires]

\* list_tasks: SELECT ... FROM tasks ORDER BY expires, one line per row.
list_tasks(env) ==
    /\ \E p \in SortedOrders(TaskKeys) :
          Result("list_tasks", "none",
                 [i \in 1..Len(tasks) |->
                    [id |-> p[i], description |-> tasks[p[i]].description,
                     expires |-> tasks[p[i]].expires,
                     status |-> TaskStatus(env.now, tasks[p[i]].expires)]],
                 0)
    /\ today' = env.now
    /\ UNCHANGED <<tasks, notes, events, documents, calendar, dirs, files>>

\* add_note: INSERT INTO notes.
add_note(content, env) ==
    /\ IF env.db = "fail"
       THEN /\ Result("add_note", "StorageError", << >>, 0)
            /\ UNCHANGED notes
       ELSE /\ notes' = Append(notes, [content |-> content])
            /\ Result("add_note", "none", << >>, 0)
    /\ UNCHANGED <<tasks, events, documents, calendar, dirs, files, today>>

\* list_notes: SELECT id, content FROM notes.
list_notes ==
    /\ Result("list_notes", "none",
              [i \in 1..Len(notes) |-> [id |-> i, content |-> notes[i].content]], 0)
    /\ UNCHANGED <<tasks, notes, events, documents, calendar, dirs, files, today>>

(***************************************************************************)
(* Events and the calendar file                                            *)
(***************************************************************************)

\* The Event generate_calendar builds from one row: its name, and as begin the
\* instant of datetime.fromisoformat(time).
CalendarEntry(row) == [name |-> row.name, begin |-> Instant(fromisoformat(row.time))]

\* generate_calendar with the events kept as a set of values: equal rows give
\* one entry.
generate_calendar_by_value(rows) ==
    SetToBag({CalendarEntry(rows[i]) : i \in 1..Len(rows)})

\* generate_calendar: one Event per row of SELECT name, time FROM events, added
\* to Calendar.events (a set of Event objects, each with a uid of its own, so
\* that equal rows stay distinct); the file is written from that set.
RECURSIVE generate_calendar(_)
generate_calendar(rows) ==
    IF rows = << >> THEN EmptyBag
    ELSE generate_calendar(SubSeq(rows, 1, Len(rows) - 1))
         (+) SetToBag({CalendarEntry(rows[Len(rows)])})

\* add_event with the row inserted as typed and the time parsed afterwards: a
\* text that is no date-time leaves its row behind.
add_event_parse_late(name, time, env) ==
    LET dt == fromisoformat(time)
    IN  /\ IF env.db = "fail"
           THEN /\ Result("add_event", "StorageError", << >>, 0)
                /\ UNCHANGED <<events, calendar>>
           ELSE /\ events' = Append(events, [name |-> name, time |-> time])
                /\ IF ~dt.ok
                   THEN /\ Result("add_event", "InvalidInput", << >>, 0)
                        /\ UNCHANGED calendar
                   ELSE IF env.ics = "fail"
                   THEN /\ Result("add_event", "ExportError", << >>, 1)
                        /\ UNCHANGED calendar
                   ELSE /\ calendar' = [exists |-> TRUE,
                                        entries |-> generate_calendar(events')]
                        /\ Result("add_event", "none", << >>, 1)
        /\ UNCHANGED <<tasks, notes, documents, dirs, files, today>>

\* add_event: parse, INSERT INTO events, then generate_calendar().
add_event(name, time, env) ==
    LET dt == fromisoformat(time)
    IN  /\ IF ~dt.ok
           THEN /\ Result("add_event", "InvalidInput", << >>, 0)
                /\ UNCHANGED <<events, calendar>>
           ELSE IF env.db = "fail"
           THEN /\ Result("add_event", "StorageError", << >>, 0)
                /\ UNCHANGED <<events, calendar>>
           ELSE /\ events' = Append(events, [name |-> name, time |-> isoformat(dt)])
                /\ IF env.ics = "fail"
                   THEN /\ Result("add_event", "ExportError", << >>, 1)
                        /\ UNCHANGED calendar
                   ELSE /\ calendar' = [exists |-> TRUE,
                                        entries |-> generate_calendar(events')]
                        /\ Result("add_event", "none", << >>, 1)
        /\ UNCHANGED <<tasks, notes, documents, dirs, files, today>>

\* ORDER BY time
EventKeys == [i \in 1..Len(events) |-> events[i].time]

\* list_events that also rewrites the calendar file.
list_events_regenerating ==
    /\ \E p \in SortedOrders(EventKeys) :
          Result("list_events", "none",
                 [i \in 1..Len(events) |->
                    [id |-> p[i], name |-> events[p[i]].name, time |-> events[p[i]].time]],
                 1)
    /\ calendar' = [exists |-> TRUE, entries |-> generate_calendar(events)]
    /\ UNCHANGED <<tasks, notes, events, documents, dirs, files, today>>

\* list_events: SELECT ... FROM events ORDER BY time, one line per row.
list_events ==
    /\ \E p \in SortedOrders(EventKeys) :
          Result("list_events", "none",
                 [i \in 1..Len(events) |->
                    [id |-> p[i], name |-> events[p[i]].name, time |-> events[p[i]].time]],
                 0)
    /\ UNCHANGED <<tasks, notes, events, documents, calendar, dirs, files, today>>

(***************************************************************************)
(* Storage areas and documents                                             *)
(***************************************************************************)

\* Path.mkdir(parents=True, exist_ok=True): the path and its parents.
Mkdir(d, path) == d \cup {SubSeq(path, 1, n) : n \in 1..Len(path)}

\* add_storage: create STORAGE_DIR / name.
add_storage(name, env) ==
    LET path == STORAGE_DIR \o <<name>>
    IN  /\ IF env.mk = "fail"
           THEN /\ Result("add_storage", "IOError", << >>, 0)
                /\ UNCHANGED dirs
           ELSE /\ dirs' = Mkdir(dirs, path)
                /\ Result("add_storage", "none",
                          <<[msg |-> "Created storage", path |-> path]>>, 0)
        /\ UNCHANGED <<tasks, notes, events, documents, calendar, files, today>>

\* STORAGE_DIR / (storage or '')
StoragePath(storage) == STORAGE_DIR \o (IF storage = None THEN << >> ELSE <<storage>>)

\* DestPath with the storage area ignored: every copy lands in the root area.
DestPath_root(storage, file_path) == STORAGE_DIR \o <<file_path[Len(file_path)]>>

\* storage_path / src.name
DestPath(storage, file_path) == StoragePath(storage) \o <<file_path[Len(file_path)]>>

\* WriteFile that leaves a file that is already there as it is.
WriteFile_keep(f, path, content) ==
    [q \in DOMAIN f \cup {path} |-> IF q \in DOMAIN f THEN f[q] ELSE content]

\* The content tree with content written to the file at path.
WriteFile(f, path, content) ==
    [q \in DOMAIN f \cup {path} |-> IF q = path THEN content ELSE f[q]]

\* add_document with the row inserted before the copy: a failed copy leaves
\* its row behind.
add_document_row_first(label, file_path, storage, env) ==
    LET dest == STORAGE_DIR \o (IF storage = None THEN << >> ELSE <<storage>>)
                \o <<file_path[Len(file_path)]>>
        row  == [label |-> label, path |-> dest, storage |-> storage]
    IN  /\ IF env.mk = "fail"
           THEN /\ Result("add_document", "IOError", << >>, 0)
                /\ UNCHANGED <<dirs, files, documents>>
           ELSE /\ dirs' = dirs \cup {STORAGE_DIR, SubSeq(dest, 1, Len(dest) - 1)}
                /\ IF env.db = "fail"
                   THEN /\ Result("add_document", "StorageError", << >>, 0)
                        /\ UNCHANGED <<files, documents>>
                   ELSE /\ documents' = Append(documents, row)
                        /\ IF file_path \notin DOMAIN SourceFiles
                           THEN /\ Result("add_document", "NotFound", << >>, 0)
                                /\ UNCHANGED files
                           ELSE IF env.cp = "fail"
                           THEN /\ files' = [q \in DOMAIN files \cup {dest} |->
                                               IF q = dest THEN "" ELSE files[q]]
                                /\ Result("add_document", "IOError", << >>, 0)
                           ELSE /\ files' = [q \in DOMAIN files \cup {dest} |->
                                               IF q = dest THEN SourceFiles[file_path]
                                               ELSE files[q]]
                                /\ Result("add_document", "none",
                                          <<[msg |-> "Stored document", path |-> dest]>>,
                                          0)
        /\ UNCHANGED <<tasks, notes, events, calendar, today>>

\* add_document with the INSERT's failure raised after the row was written.
add_document_row_kept(label, file_path, storage, env) ==
    LET dest == STORAGE_DIR \o (IF storage = None THEN << >> ELSE <<storage>>)
                \o <<file_path[Len(file_path)]>>
        row  == [label |-> label, path |-> dest, storage |-> storage]
    IN  /\ IF env.mk = "fail"
           THEN /\ Result("add_document", "IOError", << >>, 0)
                /\ UNCHANGED <<dirs, files, documents>>
           ELSE /\ dirs' = dirs \cup {STORAGE_DIR, SubSeq(dest, 1, Len(dest) - 1)}
                /\ IF file_path \notin DOMAIN SourceFiles
                   THEN /\ Result("add_document", "NotFound", << >>, 0)
                        /\ UNCHANGED <<files, documents>>
                   ELSE IF env.cp = "fail"
                   THEN /\ files' = [q \in DOMAIN files \cup {dest} |->
                                       IF q = dest THEN "" ELSE files[q]]
                        /\ Result("add_document", "IOError", << >>, 0)
                        /\ UNCHANGED documents
                   ELSE /\ files' = [q \in DOMAIN files \cup {dest} |->
                                       IF q = dest THEN SourceFiles[file_path]
                                       ELSE files[q]]
                        /\ documents' = Append(documents, row)
                        /\ IF env.db = "fail"
                           THEN Result("add_document", "StorageError", << >>, 0)
                           ELSE Result("add_document", "none",
                                       <<[msg |-> "Stored document", path |-> dest]>>, 0)
        /\ UNCHANGED <<tasks, notes, events, calendar, today>>

\* add_document: mkdir, shutil.copy, INSERT INTO documents, in this order; an
\* exception at one step ends the run with the earlier steps done.
add_document(label, file_path, storage, env) ==
    LET dest == DestPath(storage, file_path)
    IN  /\ IF env.mk = "fail"
           THEN /\ Result("add_document", "IOError", << >>, 0)
                /\ UNCHANGED <<dirs, files, documents>>
           ELSE /\ dirs' = Mkdir(dirs, StoragePath(storage))
                /\ IF file_path \notin DOMAIN SourceFiles
                   THEN /\ Result("add_document", "NotFound", << >>, 0)
                        /\ UNCHANGED <<files, documents>>
                   ELSE IF env.cp = "fail"
                   THEN /\ files' = WriteFile(files, dest, "")
                        /\ Result("add_document", "IOError", << >>, 0)
                        /\ UNCHANGED documents
                   ELSE /\ files' = WriteFile(files, dest, SourceFiles[file_path])
                        /\ IF env.db = "fail"
                           THEN /\ Result("add_document", "StorageError", << >>, 0)
                                /\ UNCHANGED documents
                           ELSE /\ documents' =
                                       Append(documents, [label |-> label, path |-> dest,
                                                          storage |-> storage])
                                /\ Result("add_document", "none",
                                          <<[msg |-> "Stored document", path |-> dest]>>,
                                          0)
        /\ UNCHANGED <<tasks, notes, events, calendar, today>>

\* list_documents: SELECT ... FROM documents, storage printed as storage or 'root'.
list_documents ==
    /\ Result("list_documents", "none",
              [i \in 1..Len(documents) |->
                 [id |-> i, label |-> documents[i].label, path |-> documents[i].path,
                  storage |-> IF documents[i].storage = None THEN "root"
                              ELSE documents[i].storage]],
              0)
    /\ UNCHANGED <<tasks, notes, events, documents, calendar, dirs, files, today>>

(***************************************************************************)
(* The dispatcher                                                          *)
(***************************************************************************)

\* build_parser: the number of arguments each sub-command takes (for add-doc the
\* third is the value of --storage, None when the option is absent).
build_parser ==
    [c \in Commands |->
        CASE c \in {"add-task", "add-event"} -> 2
          [] c \in {"add-note", "add-storage"} -> 1
          [] c = "add-doc" -> 3
          [] OTHER -> 0]

\* ParseOk of a parser that lets an unknown command name through to main's
\* last branch.
ParseOk_any_name(a) ==
    \/ a = << >>
    \/ a[1] \notin {"add-task", "list-tasks", "add-note", "list-notes", "add-event",
                    "list-events", "add-storage", "add-doc", "list-docs"}
    \/ Len(a) = build_parser[a[1]] + 1

\* parser.parse_args succeeds: no command, or a known one with its arguments;
\* otherwise parser.error prints the usage and exits with status 2.
ParseOk(a) == a = << >> \/ (a[1] \in Commands /\ Len(a) = build_parser[a[1]] + 1)

\* args.command: the sub-command, None when there is none.
Command(a) == IF a = << >> THEN None ELSE a[1]

\* main: init_db, parse_args, then the branch of the command; the last branch
\* (else) prints the help.
main(a, env) ==
    /\ init_db
    /\ argv' = a
    /\ IF ~ParseOk(a)
       THEN /\ Result("none", "usage", <<[msg |-> "usage", stream |-> "stderr"]>>, 0)
            /\ UNCHANGED <<tasks, notes, events, documents, calendar, dirs, files, today>>
       ELSE CASE Command(a) = "add-task" -> add_task(a[2], a[3], env)
              [] Command(a) = "list-tasks" -> list_tasks(env)
              [] Command(a) = "add-note" -> add_note(a[2], env)
              [] Command(a) = "list-notes" -> list_notes
              [] Command(a) = "add-event" -> add_event(a[2], a[3], env)
              [] Command(a) = "list-events" -> list_events
              [] Command(a) = "add-storage" -> add_storage(a[2], env)
              [] Command(a) = "add-doc" -> add_document(a[2], a[3], a[4], env)
              [] Command(a) = "list-docs" -> list_documents
              [] OTHER ->
                   /\ Result("none", "none", <<[msg |-> "help", stream |-> "stdout"]>>, 0)
                   /\ UNCHANGED <<tasks, notes, events, documents, calendar, dirs, files,
                                  today>>

(***************************************************************************)
(* One run of the program per step                                         *)
(***************************************************************************)

Fine == Env("ok", "ok", "ok", "ok", <<2024, 2, 29>>)

AddTask ==
    /\ nwrites < MaxWrites
    /\ nwrites' = nwrites + 1
    /\ \E d \in Descriptions, e \in ExpiresInputs, db \in DbOutcomes :
          main(<<"add-task", d, e>>, [Fine EXCEPT !.db = db])

ListTasks ==
    /\ UNCHANGED nwrites
    /\ \E now \in Days : main(<<"list-tasks">>, [Fine EXCEPT !.now = now])

AddNote ==
    /\ nwrites < MaxWrites
    /\ nwrites' = nwrites + 1
    /\ \E c \in Contents, db \in DbOutcomes :
          main(<<"add-note", c>>, [Fine EXCEPT !.db = db])

ListNotes ==
    /\ UNCHANGED nwrites
    /\ main(<<"list-notes">>, Fine)

AddEvent ==
    /\ nwrites < MaxWrites
    /\ nwrites' = nwrites + 1
    /\ \E n \in EventNames, t \in TimeInputs, db \in DbOutcomes, ics \in IcsOutcomes :
          main(<<"add-event", n, t>>, [Fine EXCEPT !.db = db, !.ics = ics])

ListEvents ==
    /\ UNCHANGED nwrites
    /\ main(<<"list-events">>, Fine)

AddStorage ==
    /\ nwrites < MaxWrites
    /\ nwrites' = nwrites + 1
    /\ \E n \in StorageNames, mk \in MkdirOutcomes :
          main(<<"add-storage", n>>, [Fine EXCEPT !.mk = mk])

AddDoc ==
    /\ nwrites < MaxWrites
    /\ nwrites' = nwrites + 1
    /\ \E l \in Labels, f \in FilePaths, s \in StorageNames \cup {None},
          mk \in MkdirOutcomes, cp \in CopyOutcomes, db \in DbOutcomes :
          main(<<"add-doc", l, f, s>>, [Fine EXCEPT !.mk = mk, !.cp = cp, !.db = db])

ListDocs ==
    /\ UNCHANGED nwrites
    /\ main(<<"list-docs">>, Fine)

\* The program run without a command.
NoCommand ==
    /\ UNCHANGED nwrites
    /\ main(<< >>, Fine)

\* The program run with a command name the parser does not know, or with a
\* required argument missing.
BadCommand ==
    /\ UNCHANGED nwrites
    /\ \E a \in {<<c>> : c \in UnknownCommands} \cup {<<"add-note">>} : main(a, Fine)

Next ==
    \/ AddTask
    \/ ListTasks
    \/ AddNote
    \/ ListNotes
    \/ AddEvent
    \/ ListEvents
    \/ AddStorage
    \/ AddDoc
    \/ ListDocs
    \/ NoCommand
    \/ BadCommand

Spec == Init /\ [][Next]_vars

(***************************************************************************)
(* Properties                                                              *)
(***************************************************************************)

\* The name and instant a row of events stands for.
RowPair(row) == [name |-> row.name, begin |-> Instant(fromisoformat(row.time))]

\* The rows of events that stand for pair e.
RowsFor(e) == {i \in 1..Len(events) : RowPair(events[i]) = e}

\* C1: when add-event has returned, the calendar file holds as many entries as
\* the events table has rows, and each name+time pair occurs in the file as
\* often as among the rows.
C1_CalendarBijection ==
    (handler = "add_event" /\ exit = 0) =>
        /\ calendar.exists
        /\ BagCardinality(calendar.entries) = Len(events)
        /\ \A e \in BagToSet(calendar.entries) \cup {RowPair(events[i]) : i \in 1..Len(events)} :
              CopiesIn(e, calendar.entries) = Cardinality(RowsFor(e))

\* Two events with the same name and the same time, the second just added.
C1_Witness ==
    /\ handler = "add_event" /\ exit = 0
    /\ Len(events) = 2
    /\ events[1] = events[2]

\* The destination <contentRoot>/<storage or "">/<basename> of an add-doc run.
ExpectedDest(a) ==
    <<"storage">> \o (IF a[4] = None THEN << >> ELSE <<a[4]>>) \o <<a[3][Len(a[3])]>>

C3_NoPartialState ==
    [][(handler' = "add_document" /\ exit' # 0) =>
          (dirs' = dirs /\ files' = files /\ documents' = documents)]_vars

\* C3 as amended: a failed add-doc inserts no row and changes no table; of the
\* content tree it may leave the destination directory created, and at the
\* destination path a truncated file (copy broken off) or the complete copy
\* (insertion failed); nothing else in the tree changes.
C3_FailureLeavesNoRow ==
    [][(handler' = "add_document" /\ exit' # 0) =>
          LET dest == ExpectedDest(argv')
          IN  /\ UNCHANGED <<tasks, notes, events, documents, calendar>>
              /\ dirs \subseteq dirs'
              /\ dirs' \subseteq dirs \cup {SubSeq(dest, 1, n) : n \in 1..(Len(dest) - 1)}
              /\ DOMAIN files \subseteq DOMAIN files'
              /\ DOMAIN files' \subseteq DOMAIN files \cup {dest}
              /\ \A q \in DOMAIN files : q # dest => files'[q] = files[q]
              /\ err' = "StorageError" => (dest \in DOMAIN files'
                                           /\ files'[dest] = SourceFiles[argv'[3]])]_vars

\* An add-doc that failed at the insertion: the copy is in the tree, no row.
C3_Witness ==
    /\ handler = "add_document" /\ err = "StorageError"
    /\ documents = << >>
    /\ <<"storage", "finance", "inv.pdf">> \in DOMAIN files

\* C4: add-doc with a source path that does not exist fails and inserts no row;
\* the failure is NotFound, raised by the copy, unless the directory creation
\* before it already failed (IOError, the tree untouched); and no failed copy
\* comes with a new row.
C4_MissingSource ==
    [][(handler' = "add_document") =>
          /\ argv'[3] \notin DOMAIN SourceFiles =>
                /\ exit' # 0
                /\ documents' = documents
                /\ files' = files
                /\ err' = "NotFound" \/ (err' = "IOError" /\ dirs' = dirs)
          /\ err' \in {"NotFound", "IOError"} => documents' = documents]_vars

\* add-doc of a path that does not exist, after a document was stored.
C4_Witness ==
    /\ handler = "add_document" /\ err = "NotFound"
    /\ argv[3] = <<"no", "such", "file">>
    /\ Len(documents) = 1

\* Two listed times can be compared as instants: both carry a UTC offset, or
\* neither does.
Comparable(a, b) == fromisoformat(a).tz = fromisoformat(b).tz

\* C5 as stated: list-events prints the events in ascending order of their
\* times as instants.
C5_ListedByInstant ==
    (handler = "list_events" /\ exit = 0) =>
        \A i, j \in 1..Len(out) :
            (i < j /\ Comparable(out[i].time, out[j].time)) =>
                InstantLeq(Instant(fromisoformat(out[i].time)),
                           Instant(fromisoformat(out[j].time)))

\* C6: list-tasks prints one line per task and marks a line EXPIRED exactly
\* when the date of the clock at listing time is after the task's date; and the
\* date of a row is the date given to add-task.
C6_ExpiredIffPast ==
    [][/\ (handler' = "list_tasks" /\ exit' = 0) =>
             /\ Len(out') = Len(tasks')
             /\ \A i \in 1..Len(out') :
                   /\ out'[i].id \in 1..Len(tasks')
                   /\ out'[i].expires = tasks'[out'[i].id].expires
                   /\ out'[i].status \in {"EXPIRED", ""}
                   /\ out'[i].status = "EXPIRED" <=>
                         DateGreater(today', date_fromisoformat(out'[i].expires))
             /\ \A i, j \in 1..Len(out') : i # j => out'[i].id # out'[j].id
       /\ (handler' = "add_task" /\ exit' = 0) =>
             /\ Len(tasks') = Len(tasks) + 1
             /\ date_fromisoformat(tasks'[Len(tasks')].expires)
                    = DateOf(fromisoformat(argv'[3]))]_vars

\* A listing on 29 February 2024 with a task due that day (not expired) and a
\* task due the day before (expired).
C6_Witness ==
    /\ handler = "list_tasks" /\ exit = 0
    /\ today = <<2024, 2, 29>>
    /\ \E i, j \in 1..Len(out) :
          /\ date_fromisoformat(out[i].expires) = today /\ out[i].status = ""
          /\ date_fromisoformat(out[j].expires) = <<2024, 2, 28>>
          /\ out[j].status = "EXPIRED"

\* The run left the store, the calendar file and the content tree as they were.
NothingWritten == UNCHANGED <<tasks, notes, events, documents, calendar, dirs, files>>

\* C7 as stated: an unknown command name, or no command, prints usage and exits
\* with status 0 without invoking an operation.
C7_UnknownExitsZero ==
    [][(argv' = << >> \/ argv'[1] \notin Commands) =>
          (exit' = 0 /\ handler' = "none" /\ out' # << >>)]_vars

\* C7 as amended: no command prints the help and exits with status 0; an
\* unknown command name is rejected by the argument parser, which prints the
\* usage with an error on stderr and exits with status 2; neither invokes an
\* operation or writes anything.
C7_HelpOrUsageError ==
    [][/\ argv' = << >> =>
             /\ exit' = 0 /\ handler' = "none" /\ NothingWritten
             /\ out' = <<[msg |-> "help", stream |-> "stdout"]>>
       /\ (argv' # << >> /\ argv'[1] \notin Commands) =>
             /\ exit' = 2 /\ handler' = "none" /\ NothingWritten
             /\ out' = <<[msg |-> "usage", stream |-> "stderr"]>>]_vars

\* An unknown command name given to a store that holds an event.
C7_Witness ==
    /\ argv = <<"bogus">>
    /\ exit = 2
    /\ Len(events) = 1

\* C8: generate_calendar is called once in a run that inserted an event and in
\* no other run; the calendar file changes only in such a run, and after a
\* successful add-event it is the regeneration from all rows.
C8_RegeneratedOnlyOnInsert ==
    [][LET inserted == Len(events') = Len(events) + 1
       IN  /\ regen' = (IF inserted THEN 1 ELSE 0)
           /\ inserted => handler' = "add_event"
           /\ events' # events => inserted
           /\ calendar' # calendar => inserted
           /\ (handler' = "add_event" /\ exit' = 0) =>
                 (inserted /\ calendar' = [exists |-> TRUE,
                                           entries |-> generate_calendar(events')])]_vars

\* list-events run when the calendar file exists.
C8_Witness ==
    /\ handler = "list_events" /\ exit = 0
    /\ regen = 0
    /\ calendar.exists
    /\ Len(events) = 2

\* C9: an add-doc whose destination path is already recorded by a row succeeds
\* like any other: the earlier rows stay, one row with the same path is added,
\* and the file at that path has the content of the new source.
C9_SameNameOverwrites ==
    [][(/\ handler' = "add_document"
        /\ argv'[3] \in DOMAIN SourceFiles
        /\ \E i \in 1..Len(documents) : documents[i].path = ExpectedDest(argv')
        /\ exit' # 0) => err' \in {"IOError", "StorageError"}]_vars
    /\ [][(/\ handler' = "add_document" /\ exit' = 0
           /\ \E i \in 1..Len(documents) : documents[i].path = ExpectedDest(argv')) =>
             LET dest == ExpectedDest(argv')
             IN  /\ Len(documents') = Len(documents) + 1
                 /\ SubSeq(documents', 1, Len(documents)) = documents
                 /\ documents'[Len(documents')].path = dest
                 /\ Cardinality({i \in 1..Len(documents') : documents'[i].path = dest}) >= 2
                 /\ files'[dest] = SourceFiles[argv'[3]]]_vars

\* Two rows with the same path, the file holding the second source's content,
\* which differs from the first's.
C9_Witness ==
    /\ handler = "add_document" /\ exit = 0
    /\ Len(documents) = 2
    /\ documents[1].path = documents[2].path
    /\ argv[3] = <<"home", "inv.pdf">>
    /\ files[documents[2].path] = "invoice of June"
    /\ SourceFiles[<<"tmp", "inv.pdf">>] # files[documents[1].path]

\* C10: add-task or add-event with a text that does not parse ends with
\* InvalidInput, inserts no row, does not call generate_calendar, and leaves the
\* tables, the calendar file and the content tree as they were.
C10_InvalidInputWritesNothing ==
    [][(handler' \in {"add_task", "add_event"} /\ ~fromisoformat(argv'[3]).ok) =>
          /\ err' = "InvalidInput"
          /\ exit' # 0
          /\ regen' = 0
          /\ NothingWritten]_vars

\* add-event with a text that is no date-time, the calendar file being there.
C10_Witness ==
    /\ handler = "add_event" /\ err = "InvalidInput"
    /\ calendar.exists
    /\ Len(events) = 1

====
